---- MODULE Spec2Model ----
(***************************************************************************)
(* `wrangler d1 export`: Handler -> exportRemotely -> pollExport.          *)
(*                                                                         *)
(* One export is one invocation of Handler.  pollExport polls the export   *)
(* endpoint until the job is complete or has failed, threading the         *)
(* server's bookmark and the count of uploaded parts through its           *)
(* recursion; exportRemotely then downloads the signed URL to the output   *)
(* file.  The server, the signed-URL host and the file system are the      *)
(* environment: their answers are chosen nondeterministically.             *)
(*                                                                         *)
(* Strings are TLA+ strings.  The module is ASCII, so the cyclone glyph    *)
(* that prefixes every progress line is written Swirl.  An optional value  *)
(* (`x?: T`, `T | undefined`) is <<>> when undefined and <<v>> otherwise.  *)
(***************************************************************************)
EXTENDS Integers, Sequences, FiniteSets, TLC

(* ---------------------------------------------------------------- bounds *)
\* Requests one export may issue before the model stops it.
MaxPolls == 3
\* Message lines one export receives, over all of its responses, before the
\* model stops the server sending more.
MaxLines == 3

(* ------------------------------------------------------------- constants *)
Exports == {1, 2}
Swirl == "@"
Undefined == <<>>
Some(v) == <<v>>
IsDefined(o) == o # Undefined
Val(o) == o[1]

ChunkLimit == 790000
UploadedPrefix == "Uploaded part"

AccountId == "acct"
DbUuid == "db-uuid"
ExportUrl == "/accounts/" \o AccountId \o "/d1/database/" \o DbUuid \o "/export"

(* ---------------------------------------------------- pure string helpers *)
\* String.prototype.startsWith
StartsWith(s, p) == Len(s) >= Len(p) /\ SubSeq(s, 1, Len(p)) = p

\* First index at which p occurs in s at or after position from, 0 if none.
IndexFrom(s, p, from) ==
    IF \E i \in from..(Len(s) - Len(p) + 1) : SubSeq(s, i, i + Len(p) - 1) = p
    THEN CHOOSE i \in from..(Len(s) - Len(p) + 1) :
            /\ SubSeq(s, i, i + Len(p) - 1) = p
            /\ \A j \in from..(i - 1) : SubSeq(s, j, j + Len(p) - 1) # p
    ELSE 0

\* Array.prototype.join
RECURSIVE Join(_, _)
Join(arr, sep) ==
    IF arr = <<>> THEN ""
    ELSE IF Len(arr) = 1 THEN arr[1]
    ELSE arr[1] \o sep \o Join(Tail(arr), sep)

(* ------------------------------------------------------- input universes *)
\* Sequences over S of length at most n.
SeqUpTo(S, n) == UNION {[1..k -> S] : k \in 0..n}

Bookmarks == {"b1", "b2"}
\* The bookmark of a response that ends the job; pollExport does not read it.
FinalBookmarks == {"b2"}
Lines == {"Uploaded part 7", "Creating export"}
ErrorLists == {<<>>, <<"disk full">>, <<"disk full", "quota exceeded">>}
EnvelopeErrors == {"bad request"}
TransportFaults == {"fetch failed"}
Artifacts == {[filename |-> "dump.sql", signedUrl |-> "https://x/y"],
              [filename |-> "dump.sql", signedUrl |-> "https://x/z"]}
Bodies == {Undefined, Some("SQL")}

\* The statuses PollingResponse declares.
DeclaredStatuses == {"active", "error", "complete"}

\* PollingResponse | { success: false; error: string }
FailedEnvelopes == {[success |-> FALSE, error |-> m] : m \in EnvelopeErrors}
SuccessEnvelopes(statuses) ==
    {[success |-> TRUE,
      result |-> [type |-> "export", status |-> st, at_bookmark |-> b,
                  messages |-> ms, errors |-> es, result |-> a]] :
        st \in statuses \ {"error", "complete"}, b \in Bookmarks,
        ms \in SeqUpTo(Lines, MaxLines), es \in {<<>>}, a \in {Undefined}}
    \cup
    {[success |-> TRUE,
      result |-> [type |-> "export", status |-> st, at_bookmark |-> b,
                  messages |-> ms, errors |-> es, result |-> a]] :
        st \in statuses \cap {"error"}, b \in FinalBookmarks,
        ms \in SeqUpTo(Lines, MaxLines), es \in ErrorLists, a \in {Undefined}}
    \cup
    {[success |-> TRUE,
      result |-> [type |-> "export", status |-> st, at_bookmark |-> b,
                  messages |-> ms, errors |-> es, result |-> Some(a)]] :
        st \in statuses \cap {"complete"}, b \in FinalBookmarks,
        ms \in SeqUpTo(Lines, MaxLines), es \in {<<>>}, a \in Artifacts}
Responses(statuses) == FailedEnvelopes \cup SuccessEnvelopes(statuses)

\* HandlerOptions.  table is absent, one string, or an array of strings.
MkArgs(local, remote, noSchema, noData, table) ==
    [local |-> local, remote |-> remote, name |-> "mydb", output |-> "out.sql",
     noSchema |-> noSchema, noData |-> noData, table |-> table]
ArgsSet ==
    {MkArgs(Undefined, Some(TRUE), Undefined, Undefined,
            [tag |-> "undefined", val |-> <<>>]),
     MkArgs(Undefined, Some(TRUE), Some(TRUE), Undefined,
            [tag |-> "string", val |-> <<"users">>]),
     MkArgs(Undefined, Some(TRUE), Undefined, Some(TRUE),
            [tag |-> "array", val |-> <<"users", "posts">>]),
     MkArgs(Some(TRUE), Undefined, Undefined, Undefined,
            [tag |-> "undefined", val |-> <<>>]),
     MkArgs(Undefined, Undefined, Undefined, Some(TRUE),
            [tag |-> "undefined", val |-> <<>>])}

\* The argument an export that is never started is given.
IdleArgs == MkArgs(Undefined, Undefined, Undefined, Some(TRUE),
                   [tag |-> "undefined", val |-> <<>>])

\* JavaScript truthiness of an optional boolean.
Truthy(o) == IsDefined(o) /\ Val(o) = TRUE

(* ----------------------------------------------------------------- state *)
VARIABLES
    pc,                 \* position of each export's control
    args,               \* Handler's argument
    dumpOptions,        \* exportRemotely's dumpOptions object
    currentBookmark,    \* pollExport's parameter, current frame
    num_parts_uploaded, \* pollExport's parameter, current frame
    response,           \* pollExport's `response`, current frame
    result,             \* exportRemotely's `result`
    contents,           \* exportRemotely's `contents`
    error,              \* the error Handler's promise rejected with
    requests,           \* status requests issued, in order
    responses,          \* status responses received, in order
    inflight,           \* status requests issued and not yet answered
    settled,            \* outcomes of the outermost pollExport promise
    console,            \* console.log lines written by pollExport
    logger,             \* logger.log lines written by exportRemotely
    gets,               \* URLs fetched with GET
    writes              \* fs.writeFile calls: path and data

\* create-cloudflare's updateTsConfig, which shares nothing with the export.
VARIABLES
    typesPc,            \* position of updateTsConfig
    typesDir,           \* node_modules/@cloudflare/workers-types on disk
    tsconfig,           \* the project's tsconfig.json, if there is one
    entrypointVersion,  \* updateTsConfig's `entrypointVersion`, once assigned
    spinnerText         \* what the spinner was stopped with

exportVars == <<pc, args, dumpOptions, currentBookmark, num_parts_uploaded,
                response, result, contents, error, requests, responses,
                inflight, settled, console, logger, gets, writes>>

typesVars == <<typesPc, typesDir, tsconfig, entrypointVersion, spinnerText>>

vars == <<exportVars, typesVars>>

Throw(name, message) == Some([name |-> name, message |-> message])

\* updateTsConfig is not running.
TypesIdle ==
    /\ typesPc = "idle"
    /\ typesDir = [readable |-> FALSE, names |-> {}]
    /\ tsconfig = Undefined
    /\ entrypointVersion = Undefined
    /\ spinnerText = Undefined

\* No export has been started yet; those of started will be.
ExportsInit(started) ==
    /\ pc = [e \in Exports |-> IF e \in started THEN "Handler" ELSE "idle"]
    /\ args \in [Exports -> ArgsSet]
    /\ \A e \in Exports \ started : args[e] = IdleArgs
    /\ dumpOptions = [e \in Exports |-> Undefined]
    /\ currentBookmark = [e \in Exports |-> Undefined]
    /\ num_parts_uploaded = [e \in Exports |-> 0]
    /\ response = [e \in Exports |-> Undefined]
    /\ result = [e \in Exports |-> Undefined]
    /\ contents = [e \in Exports |-> Undefined]
    /\ error = [e \in Exports |-> Undefined]
    /\ requests = [e \in Exports |-> <<>>]
    /\ responses = [e \in Exports |-> <<>>]
    /\ inflight = [e \in Exports |-> 0]
    /\ settled = [e \in Exports |-> <<>>]
    /\ console = [e \in Exports |-> <<>>]
    /\ logger = [e \in Exports |-> <<>>]
    /\ gets = [e \in Exports |-> <<>>]
    /\ writes = [e \in Exports |-> <<>>]

InitWith(started) == ExportsInit(started) /\ TypesIdle

Init == InitWith({1})

(* ------------------------------------------------------ Handler (55-83) *)
\* const tables = table ? (Array.isArray(table) ? table : [table]) : []
Tables(table) ==
    IF table.tag = "undefined" THEN <<>>
    ELSE IF table.tag = "string"
         THEN (IF table.val[1] = "" THEN <<>> ELSE <<table.val[1]>>)
         ELSE table.val

Fail(e, name, message) ==
    /\ error' = [error EXCEPT ![e] = Throw(name, message)]
    /\ pc' = [pc EXCEPT ![e] = "failed"]

\* Mutant of Handler: the check that --remote was given is missing.
Handler_noRemoteCheck(e) ==
    /\ pc[e] = "Handler"
    /\ IF Truthy(args[e].local)
       THEN Fail(e, "UserError",
                 "Local imports/exports will be coming in a future version of Wrangler.")
       ELSE /\ pc' = [pc EXCEPT ![e] = "exportRemotely"]
            /\ UNCHANGED error
    /\ UNCHANGED <<typesVars, args, dumpOptions, currentBookmark, num_parts_uploaded,
                   response, result, contents, requests, responses, inflight,
                   settled, console, logger, gets, writes>>

Handler(e) ==
    /\ pc[e] = "Handler"
    /\ IF Truthy(args[e].local)
       THEN Fail(e, "UserError",
                 "Local imports/exports will be coming in a future version of Wrangler.")
       ELSE IF ~Truthy(args[e].remote)
       THEN Fail(e, "UserError", "You must specify either --local or --remote")
       ELSE /\ pc' = [pc EXCEPT ![e] = "exportRemotely"]
            /\ UNCHANGED error
    /\ UNCHANGED <<typesVars, args, dumpOptions, currentBookmark, num_parts_uploaded,
                   response, result, contents, requests, responses, inflight,
                   settled, console, logger, gets, writes>>

(* ------------------------------------------- exportRemotely (103-140) *)
\* const dumpOptions = { noSchema, noData, tables }
DumpOptions(a) ==
    [noSchema |-> a.noSchema, noData |-> a.noData, tables |-> Tables(a.table)]

\* Lines 111-126: authenticate, look the database up, announce the export,
\* build dumpOptions and call pollExport with no bookmark and the default
\* num_parts_uploaded.
ExportRemotelyBegin(e) ==
    /\ pc[e] = "exportRemotely"
    /\ logger' = [logger EXCEPT ![e] = @ \o
          <<Swirl \o " Executing on remote database " \o args[e].name
                \o " (" \o DbUuid \o "):",
            Swirl \o " Creating export...">>]
    /\ dumpOptions' = [dumpOptions EXCEPT ![e] = Some(DumpOptions(args[e]))]
    /\ currentBookmark' = [currentBookmark EXCEPT ![e] = Undefined]
    /\ num_parts_uploaded' = [num_parts_uploaded EXCEPT ![e] = 0]
    /\ pc' = [pc EXCEPT ![e] = "pollExport"]
    /\ UNCHANGED <<typesVars, args, response, result, contents, error, requests, responses,
                   inflight, settled, console, gets, writes>>

\* requireAuth or getDatabaseByNameOrBinding rejects (lines 111-116).
ExportRemotelyReject(e) ==
    /\ pc[e] = "exportRemotely"
    /\ Fail(e, "Error", "not authenticated")
    /\ UNCHANGED <<typesVars, args, dumpOptions, currentBookmark, num_parts_uploaded,
                   response, result, contents, requests, responses, inflight,
                   settled, console, logger, gets, writes>>

(* ------------------------------------------------ pollExport (142-195) *)
\* Mutant of RequestBody: a resumed request leaves the table filter out.
RequestBody_resumeDropsTables(opts, bookmark) ==
    [url |-> ExportUrl, method |-> "POST", outputFormat |-> "polling",
     dumpOptions |-> [noSchema |-> opts.noSchema, noData |-> opts.noData,
                      tables |-> IF bookmark = Undefined THEN opts.tables ELSE <<>>,
                      limit |-> ChunkLimit],
     currentBookmark |-> bookmark]

\* The body of the POST of lines 160-167.  JSON.stringify leaves an
\* undefined currentBookmark out, which is what Undefined stands for.
RequestBody(opts, bookmark) ==
    [url |-> ExportUrl, method |-> "POST", outputFormat |-> "polling",
     dumpOptions |-> [noSchema |-> opts.noSchema, noData |-> opts.noData,
                      tables |-> opts.tables, limit |-> ChunkLimit],
     currentBookmark |-> bookmark]

\* Mutant of PollRequest: the driver gives up after two requests.
PollRequest_givesUpAfterTwo(e) ==
    /\ pc[e] = "pollExport"
    /\ IF Len(requests[e]) >= 2
       THEN /\ Fail(e, "Error", "Export timed out")
            /\ settled' = [settled EXCEPT ![e] = Append(@, "failure")]
            /\ UNCHANGED <<requests, inflight>>
       ELSE /\ requests' = [requests EXCEPT ![e] =
                  Append(@, RequestBody(Val(dumpOptions[e]), currentBookmark[e]))]
            /\ inflight' = [inflight EXCEPT ![e] = @ + 1]
            /\ pc' = [pc EXCEPT ![e] = "awaitResponse"]
            /\ UNCHANGED <<error, settled>>
    /\ UNCHANGED <<typesVars, args, dumpOptions, currentBookmark, num_parts_uploaded,
                   response, result, contents, responses, console, logger,
                   gets, writes>>

\* Mutant of PollRequest: the next request does not wait for the answer to
\* the one before.
PollRequest_noAwait(e) ==
    /\ pc[e] \in {"pollExport", "awaitResponse"}
    /\ Len(requests[e]) < MaxPolls
    /\ requests' = [requests EXCEPT ![e] =
          Append(@, RequestBody(Val(dumpOptions[e]), currentBookmark[e]))]
    /\ inflight' = [inflight EXCEPT ![e] = @ + 1]
    /\ pc' = [pc EXCEPT ![e] = "awaitResponse"]
    /\ UNCHANGED <<typesVars, args, dumpOptions, currentBookmark, num_parts_uploaded,
                   response, result, contents, error, responses, settled,
                   console, logger, gets, writes>>

\* Lines 153-168: issue the status request.
PollRequest(e) ==
    /\ pc[e] = "pollExport"
    /\ Len(requests[e]) < MaxPolls
    /\ requests' = [requests EXCEPT ![e] =
          Append(@, RequestBody(Val(dumpOptions[e]), currentBookmark[e]))]
    /\ inflight' = [inflight EXCEPT ![e] = @ + 1]
    /\ pc' = [pc EXCEPT ![e] = "awaitResponse"]
    /\ UNCHANGED <<typesVars, args, dumpOptions, currentBookmark, num_parts_uploaded,
                   response, result, contents, error, responses, settled,
                   console, logger, gets, writes>>

\* The message lines of one response.
MessagesOf(r) == IF r.success THEN r.result.messages ELSE <<>>

\* The message lines of a sequence of responses, in arrival order.
RECURSIVE AllLines(_)
AllLines(rs) ==
    IF rs = <<>> THEN <<>>
    ELSE MessagesOf(Head(rs)) \o AllLines(Tail(rs))

\* Line 153: fetchResult resolves with the server's answer r.
PollReceive(e, r) ==
    /\ pc[e] = "awaitResponse"
    /\ Len(AllLines(responses[e])) + Len(MessagesOf(r)) <= MaxLines
    /\ response' = [response EXCEPT ![e] = Some(r)]
    /\ responses' = [responses EXCEPT ![e] = Append(@, r)]
    /\ inflight' = [inflight EXCEPT ![e] = @ - 1]
    /\ pc' = [pc EXCEPT ![e] = "checkSuccess"]
    /\ UNCHANGED <<typesVars, args, dumpOptions, currentBookmark, num_parts_uploaded,
                   result, contents, error, requests, settled, console, logger,
                   gets, writes>>

\* Line 153: fetchResult rejects; the rejection leaves every frame of
\* pollExport, exportRemotely and Handler.
PollFault(e, m) ==
    /\ pc[e] = "awaitResponse"
    /\ inflight' = [inflight EXCEPT ![e] = @ - 1]
    /\ settled' = [settled EXCEPT ![e] = Append(@, "failure")]
    /\ Fail(e, "Error", m)
    /\ UNCHANGED <<typesVars, args, dumpOptions, currentBookmark, num_parts_uploaded,
                   response, result, contents, requests, responses, console,
                   logger, gets, writes>>

\* Mutant of PollCheckSuccess: a failed envelope is retried with the same
\* bookmark instead of thrown.
PollCheckSuccess_retries(e) ==
    /\ pc[e] = "checkSuccess"
    /\ pc' = [pc EXCEPT ![e] = IF Val(response[e]).success THEN "messages"
                                                           ELSE "pollExport"]
    /\ UNCHANGED <<typesVars, args, dumpOptions, currentBookmark, num_parts_uploaded,
                   response, result, contents, error, requests, responses,
                   inflight, settled, console, logger, gets, writes>>

\* Line 170: if (!response.success) throw new Error(response.error)
PollCheckSuccess(e) ==
    /\ pc[e] = "checkSuccess"
    /\ IF ~Val(response[e]).success
       THEN /\ Fail(e, "Error", Val(response[e]).error)
            /\ settled' = [settled EXCEPT ![e] = Append(@, "failure")]
       ELSE /\ pc' = [pc EXCEPT ![e] = "messages"]
            /\ UNCHANGED <<error, settled>>
    /\ UNCHANGED <<typesVars, args, dumpOptions, currentBookmark, num_parts_uploaded,
                   response, result, contents, requests, responses, inflight,
                   console, logger, gets, writes>>

\* Mutant of EmitLine: every line moves the counter, not only the parts.
EmitLine_countsEveryLine(line, n) ==
    IF StartsWith(line, UploadedPrefix)
    THEN [out |-> Swirl \o " Uploaded part " \o ToString(n + 1), num |-> n + 1]
    ELSE [out |-> Swirl \o " " \o line, num |-> n + 1]

\* Mutant of EmitLine: the server's own part number is shown.
EmitLine_serverNumber(line, n) ==
    IF StartsWith(line, UploadedPrefix)
    THEN [out |-> Swirl \o " " \o line, num |-> n + 1]
    ELSE [out |-> Swirl \o " " \o line, num |-> n]

\* Lines 173-179, one line of the forEach: what is logged and the counter
\* after it.
EmitLine(line, n) ==
    IF StartsWith(line, UploadedPrefix)
    THEN [out |-> Swirl \o " Uploaded part " \o ToString(n + 1), num |-> n + 1]
    ELSE [out |-> Swirl \o " " \o line, num |-> n]

\* Mutant of EmitLines: the array is walked from its last line to its first.
RECURSIVE EmitLines_backwards(_, _)
EmitLines_backwards(messages, n) ==
    IF messages = <<>> THEN [out |-> <<>>, num |-> n]
    ELSE LET first == EmitLine(messages[Len(messages)], n)
             rest == EmitLines_backwards(SubSeq(messages, 1, Len(messages) - 1),
                                         first.num)
         IN [out |-> <<first.out>> \o rest.out, num |-> rest.num]

\* Lines 172-180, the whole forEach: the lines logged, in order, and the
\* counter after the last one.
RECURSIVE EmitLines(_, _)
EmitLines(messages, n) ==
    IF messages = <<>> THEN [out |-> <<>>, num |-> n]
    ELSE LET first == EmitLine(Head(messages), n)
             rest == EmitLines(Tail(messages), first.num)
         IN [out |-> <<first.out>> \o rest.out, num |-> rest.num]

\* Mutant of PollMessages: the count of uploaded parts is one variable of the
\* module, shared by every export, instead of a parameter of pollExport.
PollMessages_sharedCounter(e) ==
    /\ pc[e] = "messages"
    /\ LET emitted == EmitLines(Val(response[e]).result.messages,
                                num_parts_uploaded[1])
       IN /\ console' = [console EXCEPT ![e] = @ \o emitted.out]
          /\ num_parts_uploaded' = [x \in Exports |-> emitted.num]
    /\ pc' = [pc EXCEPT ![e] = "branch"]
    /\ UNCHANGED <<typesVars, args, dumpOptions, currentBookmark, response, result,
                   contents, error, requests, responses, inflight, settled,
                   logger, gets, writes>>

\* Mutant of PollMessages: the status is looked at first and the lines of a
\* response that ends the job are not walked.
PollMessages_skipsJobEnd(e) ==
    /\ pc[e] = "messages"
    /\ LET res == Val(response[e]).result
           emitted == IF res.status \in {"complete", "error"}
                      THEN [out |-> <<>>, num |-> num_parts_uploaded[e]]
                      ELSE EmitLines(res.messages, num_parts_uploaded[e])
       IN /\ console' = [console EXCEPT ![e] = @ \o emitted.out]
          /\ num_parts_uploaded' = [num_parts_uploaded EXCEPT ![e] = emitted.num]
    /\ pc' = [pc EXCEPT ![e] = "branch"]
    /\ UNCHANGED <<typesVars, args, dumpOptions, currentBookmark, response, result,
                   contents, error, requests, responses, inflight, settled,
                   logger, gets, writes>>

PollMessages(e) ==
    /\ pc[e] = "messages"
    /\ LET emitted == EmitLines(Val(response[e]).result.messages,
                                num_parts_uploaded[e])
       IN /\ console' = [console EXCEPT ![e] = @ \o emitted.out]
          /\ num_parts_uploaded' = [num_parts_uploaded EXCEPT ![e] = emitted.num]
    /\ pc' = [pc EXCEPT ![e] = "branch"]
    /\ UNCHANGED <<typesVars, args, dumpOptions, currentBookmark, response, result,
                   contents, error, requests, responses, inflight, settled,
                   logger, gets, writes>>

\* Mutant of ErrorMessage: only the first error is reported.
ErrorMessage_firstOnly(res) == IF res.errors = <<>> THEN "" ELSE res.errors[1]

\* Line 185: response.result.errors.join("\n")
ErrorMessage(res) == Join(res.errors, "\n")

\* Mutant of NextBookmark: the bookmark is taken from the first response
\* only and every later one is ignored.
NextBookmark_keepsFirst(res, bookmark) ==
    IF bookmark = Undefined THEN Some(res.at_bookmark) ELSE bookmark

\* Line 191: the bookmark the next call of pollExport is given.
NextBookmark(res, bookmark) == Some(res.at_bookmark)

\* Mutant of Classify: the status of a finished job is misspelt, so a
\* complete job is polled again.
Classify_completeMisspelt(status) ==
    IF status = "completed" THEN "return"
    ELSE IF status = "error" THEN "throw"
    ELSE "recurse"

\* Mutant of Classify: a job error is returned to the caller like a result.
Classify_errorReturns(status) ==
    IF status \in {"complete", "error"} THEN "return" ELSE "recurse"

\* Mutant of Classify: a status that is not active is refused.
Classify_unknownThrows(status) ==
    IF status = "complete" THEN "return"
    ELSE IF status = "active" THEN "recurse"
    ELSE "throw"

\* Mutant of Classify: a job error is polled again instead of thrown.
Classify_errorPollsAgain(status) ==
    IF status = "complete" THEN "return" ELSE "recurse"

\* Lines 182, 184, 186: which branch a status takes.
Classify(status) ==
    IF status = "complete" THEN "return"
    ELSE IF status = "error" THEN "throw"
    ELSE "recurse"

\* Lines 182-194.  A return leaves every frame of the recursion at once
\* (each frame is `return await pollExport(...)`) and binds exportRemotely's
\* `result` (line 126); a throw leaves pollExport, exportRemotely and Handler.
PollBranch(e) ==
    /\ pc[e] = "branch"
    /\ LET res == Val(response[e]).result IN
       CASE Classify(res.status) = "return" ->
            /\ result' = [result EXCEPT ![e] = Some(res)]
            /\ settled' = [settled EXCEPT ![e] = Append(@, "success")]
            /\ pc' = [pc EXCEPT ![e] = "checkStatus"]
            /\ UNCHANGED <<error, currentBookmark, response>>
         [] Classify(res.status) = "throw" ->
            /\ Fail(e, "Error", ErrorMessage(res))
            /\ settled' = [settled EXCEPT ![e] = Append(@, "failure")]
            /\ UNCHANGED <<result, currentBookmark, response>>
         [] OTHER ->
            /\ currentBookmark' = [currentBookmark EXCEPT ![e] =
                                      NextBookmark(res, currentBookmark[e])]
            /\ response' = [response EXCEPT ![e] = Undefined]
            /\ pc' = [pc EXCEPT ![e] = "pollExport"]
            /\ UNCHANGED <<result, settled, error>>
    /\ UNCHANGED <<typesVars, args, dumpOptions, num_parts_uploaded, contents, requests,
                   responses, inflight, console, logger, gets, writes>>

(* ---------------------------------- exportRemotely, continued (128-139) *)
\* Lines 128-129.
ExportCheckStatus(e) ==
    /\ pc[e] = "checkStatus"
    /\ IF Val(result[e]).status # "complete"
       THEN Fail(e, "Error", "Error: D1 reset before export completed!")
       ELSE /\ pc' = [pc EXCEPT ![e] = "log"]
            /\ UNCHANGED error
    /\ UNCHANGED <<typesVars, args, dumpOptions, currentBookmark, num_parts_uploaded,
                   response, result, contents, requests, responses, inflight,
                   settled, console, logger, gets, writes>>

\* chalk.gray
Gray(s) == "<gray>" \o s \o "</gray>"

\* Mutant of SignedUrl: the file name is taken for the URL.
SignedUrl_filename(res) == Val(res.result).filename

\* The URL exportRemotely reads from its result (lines 134 and 137).
SignedUrl(res) == Val(res.result).signedUrl

\* Mutant of ExportLog: the manual-retry message is left out.
ExportLog_noRetryMessage(e) ==
    /\ pc[e] = "log"
    /\ logger' = [logger EXCEPT ![e] = @ \o
          <<Swirl \o " Downloading SQL to " \o args[e].output \o "...">>]
    /\ pc' = [pc EXCEPT ![e] = "fetch"]
    /\ UNCHANGED <<typesVars, args, dumpOptions, currentBookmark, num_parts_uploaded,
                   response, result, contents, error, requests, responses,
                   inflight, settled, console, gets, writes>>

\* Lines 131-136.
ExportLog(e) ==
    /\ pc[e] = "log"
    /\ logger' = [logger EXCEPT ![e] = @ \o
          <<Swirl \o " Downloading SQL to " \o args[e].output \o "...",
            Gray("If this download fails, you can retry downloading the following URL manually. It is valid for 1 hour: "
                 \o SignedUrl(Val(result[e])))>>]
    /\ pc' = [pc EXCEPT ![e] = "fetch"]
    /\ UNCHANGED <<typesVars, args, dumpOptions, currentBookmark, num_parts_uploaded,
                   response, result, contents, error, requests, responses,
                   inflight, settled, console, gets, writes>>

\* Line 137: issue the GET of the signed URL.
ExportFetch(e) ==
    /\ pc[e] = "fetch"
    /\ gets' = [gets EXCEPT ![e] = Append(@, SignedUrl(Val(result[e])))]
    /\ pc' = [pc EXCEPT ![e] = "awaitFetch"]
    /\ UNCHANGED <<typesVars, args, dumpOptions, currentBookmark, num_parts_uploaded,
                   response, result, contents, error, requests, responses,
                   inflight, settled, console, logger, writes>>

\* Line 137: the GET resolves with a response whose body is body.
FetchResolve(e, body) ==
    /\ pc[e] = "awaitFetch"
    /\ contents' = [contents EXCEPT ![e] = Some([body |-> body])]
    /\ pc' = [pc EXCEPT ![e] = "writeFile"]
    /\ UNCHANGED <<typesVars, args, dumpOptions, currentBookmark, num_parts_uploaded,
                   response, result, error, requests, responses, inflight,
                   settled, console, logger, gets, writes>>

\* Mutant of FetchReject: a failed download is tried again.
FetchReject_retries(e) ==
    /\ pc[e] = "awaitFetch"
    /\ Len(gets[e]) < 2
    /\ pc' = [pc EXCEPT ![e] = "fetch"]
    /\ UNCHANGED <<typesVars, args, dumpOptions, currentBookmark, num_parts_uploaded,
                   response, result, contents, error, requests, responses,
                   inflight, settled, console, logger, gets, writes>>

\* Line 137: the GET rejects.
FetchReject(e) ==
    /\ pc[e] = "awaitFetch"
    /\ Fail(e, "TypeError", "fetch failed")
    /\ UNCHANGED <<typesVars, args, dumpOptions, currentBookmark, num_parts_uploaded,
                   response, result, contents, requests, responses, inflight,
                   settled, console, logger, gets, writes>>

\* contents.body || ""
BodyOrEmpty(body) == IF body = Undefined \/ Val(body) = "" THEN "" ELSE Val(body)

\* Line 138: call fs.writeFile.
ExportWriteFile(e) ==
    /\ pc[e] = "writeFile"
    /\ writes' = [writes EXCEPT ![e] =
          Append(@, [path |-> args[e].output,
                     data |-> BodyOrEmpty(Val(contents[e]).body)])]
    /\ pc' = [pc EXCEPT ![e] = "awaitWrite"]
    /\ UNCHANGED <<typesVars, args, dumpOptions, currentBookmark, num_parts_uploaded,
                   response, result, contents, error, requests, responses,
                   inflight, settled, console, logger, gets>>

\* Lines 138-139: the write resolves; report and return.
WriteResolve(e) ==
    /\ pc[e] = "awaitWrite"
    /\ logger' = [logger EXCEPT ![e] = Append(@, "Done!")]
    /\ pc' = [pc EXCEPT ![e] = "done"]
    /\ UNCHANGED <<typesVars, args, dumpOptions, currentBookmark, num_parts_uploaded,
                   response, result, contents, error, requests, responses,
                   inflight, settled, console, gets, writes>>

\* Line 138: the write rejects.
WriteReject(e) ==
    /\ pc[e] = "awaitWrite"
    /\ Fail(e, "Error", "EACCES")
    /\ UNCHANGED <<typesVars, args, dumpOptions, currentBookmark, num_parts_uploaded,
                   response, result, contents, requests, responses, inflight,
                   settled, console, logger, gets, writes>>

(* --------------------------------------------------------- specification *)
\* The steps the program itself takes.
Driver(e) ==
    \/ Handler(e)
    \/ ExportRemotelyBegin(e)
    \/ PollRequest(e)
    \/ PollCheckSuccess(e)
    \/ PollMessages(e)
    \/ PollBranch(e)
    \/ ExportCheckStatus(e)
    \/ ExportLog(e)
    \/ ExportFetch(e)
    \/ ExportWriteFile(e)

\* The answers of the environment, with status drawn from statuses.
Environment(e, statuses) ==
    \/ ExportRemotelyReject(e)
    \/ \E r \in Responses(statuses) : PollReceive(e, r)
    \/ \E m \in TransportFaults : PollFault(e, m)
    \/ \E body \in Bodies : FetchResolve(e, body)
    \/ FetchReject(e)
    \/ WriteResolve(e)
    \/ WriteReject(e)

Next == \E e \in Exports : Driver(e) \/ Environment(e, DeclaredStatuses)

Spec == Init /\ [][Next]_vars

\* The event loop runs every continuation that is ready.
Fairness == \A e \in Exports : WF_vars(Driver(e))

\* One export with one argument: the arguments play no part in whether the
\* driver settles.
InitOne ==
    /\ InitWith({1})
    /\ args[1] = MkArgs(Undefined, Some(TRUE), Some(TRUE), Undefined,
                        [tag |-> "string", val |-> <<"users">>])

FairSpec == InitOne /\ [][Next]_vars /\ Fairness

(* ---------------------------------------------------- concurrent exports *)
\* Two invocations of Handler in one process, their polls interleaved in
\* any order.  Each job has its own bookmark, and the exports are followed
\* until pollExport returns.
BookmarkOf(e) == IF e = 1 THEN "b1" ELSE "b2"

ConcResponses(e) ==
    {r \in SuccessEnvelopes({"active", "complete"}) :
        /\ r.result.messages \in {<<>>, <<"Uploaded part 7">>}
        /\ r.result.status = "active" => r.result.at_bookmark = BookmarkOf(e)
        /\ r.result.status = "complete"
              => Val(r.result.result).signedUrl = "https://x/y"}

ConcInit ==
    /\ InitWith(Exports)
    /\ args[1] = MkArgs(Undefined, Some(TRUE), Some(TRUE), Undefined,
                        [tag |-> "string", val |-> <<"users">>])
    /\ args[2] = MkArgs(Undefined, Some(TRUE), Undefined, Some(TRUE),
                        [tag |-> "array", val |-> <<"users", "posts">>])

ConcNext ==
    \E e \in Exports :
        \/ Handler(e)
        \/ ExportRemotelyBegin(e)
        \/ PollRequest(e)
        \/ \E r \in ConcResponses(e) : PollReceive(e, r)
        \/ PollCheckSuccess(e)
        \/ PollMessages(e)
        \/ PollBranch(e)

ConcSpec == ConcInit /\ [][ConcNext]_vars

(* ------------------------------------------- statuses outside the type *)
\* What the server sends is JSON: nothing holds its status to the three
\* values PollingResponse declares.  "queued" stands for any other value.
AnyStatuses == DeclaredStatuses \cup {"queued"}

AnyNext == \E e \in Exports : Driver(e) \/ Environment(e, AnyStatuses)

AnySpec == InitOne /\ [][AnyNext]_vars

(* ------------------- create-cloudflare: updateTsConfig (workers.ts 156-213) *)
CharAt(s, i) == SubSeq(s, i, i)

Digits == "0123456789"
IsDigit(c) == \E i \in 1..Len(Digits) : CharAt(Digits, i) = c

\* The regular expression /(\d{4})-(\d{2})-(\d{2})/ matches s at position i.
MatchesDateAt(s, i) ==
    /\ i + 9 <= Len(s)
    /\ \A j \in {0, 1, 2, 3, 5, 6, 8, 9} : IsDigit(CharAt(s, i + j))
    /\ CharAt(s, i + 4) = "-"
    /\ CharAt(s, i + 7) = "-"

\* filename.match(/(\d{4})-(\d{2})-(\d{2})/) is not null: the expression is
\* not anchored, so the date may stand anywhere in the name.
HasDate(s) == \E i \in 1..(Len(s) - 9) : MatchesDateAt(s, i)

\* The characters of file names in the order of their UTF-16 code units.
Alphabet == "-./0123456789ABCDEFGHIJKLMNOPQRSTUVWXYZ_abcdefghijklmnopqrstuvwxyz"
CodeUnit(c) == CHOOSE i \in 1..Len(Alphabet) : CharAt(Alphabet, i) = c

\* a sorts before b under Array.prototype.sort() without a comparator:
\* strings compared code unit by code unit.
RECURSIVE StrLess(_, _)
StrLess(a, b) ==
    IF Len(a) = 0 THEN Len(b) > 0
    ELSE IF Len(b) = 0 THEN FALSE
    ELSE IF CharAt(a, 1) = CharAt(b, 1)
         THEN StrLess(SubSeq(a, 2, Len(a)), SubSeq(b, 2, Len(b)))
         ELSE CodeUnit(CharAt(a, 1)) < CodeUnit(CharAt(b, 1))

\* .sort(): the names in ascending order.
RECURSIVE Sort(_)
Sort(names) ==
    IF names = {} THEN <<>>
    ELSE LET least == CHOOSE m \in names : \A o \in names \ {m} : StrLess(m, o)
         IN <<least>> \o Sort(names \ {least})

\* .reverse()
Reverse(arr) == [i \in 1..Len(arr) |-> arr[Len(arr) + 1 - i]]

\* null
Null == <<>>

\* Lines 189-213.  readdirSync throws when the directory cannot be read.
\* The entries of a directory are distinct and are sorted before one is
\* picked, so the listing is a set.
GetLatestTypesEntrypoint(dir) ==
    IF ~dir.readable THEN Null
    ELSE LET sorted == Reverse(Sort({filename \in dir.names : HasDate(filename)}))
         IN IF Len(sorted) = 0 THEN Null ELSE Some(sorted[1])

\* String.prototype.replace with a string pattern: the first occurrence.
Replace(s, pattern, by) ==
    LET at == IndexFrom(s, pattern, 1)
    IN IF at = 0 THEN s
       ELSE SubSeq(s, 1, at - 1) \o by \o SubSeq(s, at + Len(pattern), Len(s))

TypesPackage == "@cloudflare/workers-types"

\* brandColor and dim of @cloudflare/cli/colors
BrandColor(s) == "<brand>" \o s \o "</brand>"
Dim(s) == "<dim>" \o s \o "</dim>"

\* Lines 156-184, from the call to the return.
UpdateTsConfig ==
    /\ typesPc = "updateTsConfig"
    /\ typesPc' = "done"
    /\ IF tsconfig = Undefined
       THEN UNCHANGED <<tsconfig, entrypointVersion, spinnerText>>
       ELSE LET version == GetLatestTypesEntrypoint(typesDir)
            IN /\ entrypointVersion' = Some(version)
               /\ IF version = Null
                  THEN /\ spinnerText' = Some(BrandColor("skipped") \o " couldn't find latest compatible version of @cloudflare/workers-types")
                       /\ UNCHANGED tsconfig
                  ELSE LET typesEntrypoint == TypesPackage \o "/" \o Val(version)
                       IN /\ tsconfig' = Some(Replace(Val(tsconfig), TypesPackage,
                                                      typesEntrypoint))
                          /\ spinnerText' = Some(BrandColor("added") \o " " \o Dim(typesEntrypoint))
    /\ UNCHANGED <<typesDir, exportVars>>

\* What the package directory may hold.
TypeNames == {"2022-08-04", "2023-07-01", "experimental", "index.d.ts",
              "oldest", "next-2021-11-03"}
TypesDirs ==
    {[readable |-> FALSE, names |-> {}]}
    \cup {[readable |-> TRUE, names |-> ns] : ns \in SUBSET TypeNames}
TsConfigs ==
    {Undefined, Some("{}"),
     Some("{ \"types\": [\"@cloudflare/workers-types\"] }")}

TypesInit ==
    /\ ExportsInit({})
    /\ typesPc = "updateTsConfig"
    /\ typesDir \in TypesDirs
    /\ tsconfig \in TsConfigs
    /\ entrypointVersion = Undefined
    /\ spinnerText = Undefined

TypesNext == UpdateTsConfig

TypesSpec == TypesInit /\ [][TypesNext]_vars

(* ================================================================ claims *)
\* The exports the specification starts.
Running == {e \in Exports : pc[e] # "idle"}

\* A response that ends the job: a failed envelope, or status error or
\* complete.
IsTerminal(r) == ~r.success \/ r.result.status \in {"error", "complete"}
IsJobEnd(r) == r.success /\ r.result.status \in {"error", "complete"}

\* The responses whose line 170 check and forEach have both run.
Processed(e) ==
    IF pc[e] \in {"checkSuccess", "messages"}
    THEN SubSeq(responses[e], 1, Len(responses[e]) - 1)
    ELSE responses[e]

IsUploadLine(line) == StartsWith(line, "Uploaded part")
IsUploadEvent(out) == StartsWith(out, Swirl \o " Uploaded part ")

(* C1: bookmark threading.  The first status request of an export carries  *)
(* no bookmark, and every later request carries exactly the at_bookmark of *)
(* the response just before it, which was a successful envelope with       *)
(* status active; so no request carries an older bookmark or a value the   *)
(* server did not issue.                                                   *)
C1_BookmarkThreading ==
    \A e \in Running : \A k \in 1..Len(requests[e]) :
        IF k = 1
        THEN requests[e][k].currentBookmark = Undefined
        ELSE /\ k - 1 <= Len(responses[e])
             /\ responses[e][k - 1].success
             /\ responses[e][k - 1].result.status = "active"
             /\ requests[e][k].currentBookmark
                    = Some(responses[e][k - 1].result.at_bookmark)

\* Three requests were issued and the two bookmarks the server gave differ.
C1_Witness ==
    /\ Len(requests[1]) = 3
    /\ responses[1][1].result.at_bookmark # responses[1][2].result.at_bookmark

(* C2: terminal-once.  Once a response with status error or complete has   *)
(* been received, the export issues no further status request, whatever    *)
(* the server answered before.                                             *)
C2_TerminalOnce ==
    [][\A e \in Running :
          (\E k \in 1..Len(responses[e]) : IsJobEnd(responses[e][k]))
              => requests'[e] = requests[e]]_vars

\* A job-ending response was processed while the export could still have
\* issued requests, and the export went on to its end.
C2_Witness ==
    /\ Len(requests[1]) < MaxPolls
    /\ Len(responses[1]) >= 1
    /\ Len(responses[1]) = Len(requests[1])
    /\ IsJobEnd(responses[1][Len(responses[1])])
    /\ pc[1] \in {"failed", "done"}

(* C3: monotonic renumbering.  Over one whole export the i-th message line *)
(* that starts with "Uploaded part", in arrival order across all polls, is *)
(* shown as "Uploaded part i": the numbers shown are 1, 2, 3, ... whatever *)
(* number the server's line carried, and the counter starts at zero.       *)
C3_MonotonicRenumbering ==
    \A e \in Running :
        LET arrived == SelectSeq(AllLines(Processed(e)), IsUploadLine)
            shown == SelectSeq(console[e], IsUploadEvent)
        IN /\ Len(shown) = Len(arrived)
           /\ \A i \in 1..Len(shown) :
                 shown[i] = Swirl \o " Uploaded part " \o ToString(i)
           /\ num_parts_uploaded[e] = Len(arrived)
           /\ (requests[e] = <<>> => num_parts_uploaded[e] = 0)

\* Three parts arrived over at least two polls, each numbered 7 by the server.
C3_Witness ==
    /\ Len(SelectSeq(console[1], IsUploadEvent)) = 3
    /\ Len(responses[1]) >= 2
    /\ responses[1][1].result.messages = <<"Uploaded part 7", "Uploaded part 7">>
    /\ console[1][3] = Swirl \o " Uploaded part 3"

\* The last response an export received.
LastResponse(e) == responses[e][Len(responses[e])]

\* Every entry of entries occurs in s, each after the one before it.
RECURSIVE ContainsInOrder(_, _, _)
ContainsInOrder(s, entries, from) ==
    IF entries = <<>> THEN TRUE
    ELSE LET at == IndexFrom(s, Head(entries), from)
         IN at # 0 /\ ContainsInOrder(s, Tail(entries), at + Len(Head(entries)))

(* C4: error surfacing.  When a response with a successful envelope and    *)
(* status error has been processed, the export has failed with one error   *)
(* whose message contains every entry of the response's errors list, in    *)
(* order; the failure reaches the caller: the driver's only outcome is     *)
(* failure, no request follows and nothing is downloaded or written.       *)
C4_ErrorSurfacing ==
    \A e \in Running :
        (/\ responses[e] # <<>>
         /\ pc[e] \notin {"checkSuccess", "messages", "branch"}
         /\ LastResponse(e).success
         /\ LastResponse(e).result.status = "error")
        => /\ pc[e] = "failed"
           /\ IsDefined(error[e])
           /\ ContainsInOrder(Val(error[e]).message, LastResponse(e).result.errors, 1)
           /\ settled[e] = <<"failure">>
           /\ Len(requests[e]) = Len(responses[e])
           /\ inflight[e] = 0
           /\ gets[e] = <<>> /\ writes[e] = <<>>

\* A job failed with two errors and the export has failed.
C4_Witness ==
    /\ pc[1] = "failed"
    /\ responses[1] # <<>>
    /\ LastResponse(1).success
    /\ LastResponse(1).result.status = "error"
    /\ LastResponse(1).result.errors = <<"disk full", "quota exceeded">>
    /\ Val(error[1]).message = "disk full\nquota exceeded"

\* A request of the export was answered by a transport fault.
Faulted(e) == Len(requests[e]) = Len(responses[e]) + inflight[e] + 1

\* The last response is a failed envelope.
EnvelopeFailed(e) == responses[e] # <<>> /\ ~LastResponse(e).success

(* C5: envelope failure.  A response with success false, or a fault thrown *)
(* by the transport, at any poll, makes the export fail at once with an    *)
(* error carrying the envelope's error text (the fault, for a fault); from *)
(* then on no status request is issued, nothing is retried, and no         *)
(* progress event is emitted.                                              *)
C5_EnvelopeFailure ==
    /\ [](\A e \in Running :
            /\ (EnvelopeFailed(e) /\ pc[e] # "checkSuccess")
                  => /\ pc[e] = "failed"
                     /\ Val(error[e]).message = LastResponse(e).error
                     /\ settled[e] = <<"failure">>
            /\ Faulted(e)
                  => /\ pc[e] = "failed"
                     /\ Val(error[e]).message \in TransportFaults
                     /\ settled[e] = <<"failure">>)
    /\ [][\A e \in Running :
            (EnvelopeFailed(e) \/ Faulted(e))
               => /\ requests'[e] = requests[e]
                  /\ console'[e] = console[e]
                  /\ inflight'[e] = 0]_vars

\* The second poll was answered by a failed envelope after the first had
\* emitted progress, and the export has failed.
C5_Witness ==
    /\ Len(responses[1]) = 2
    /\ ~LastResponse(1).success
    /\ pc[1] = "failed"
    /\ console[1] # <<>>
    /\ Val(error[1]).message = "bad request"

(* C6: success payload.  When the driver ends in success, what it returns  *)
(* is the result of the one response that had status complete, with that   *)
(* response's filename and signedUrl, and every URL exportRemotely then    *)
(* downloads from is that signedUrl, unchanged.                            *)
C6_SuccessPayload ==
    \A e \in Running :
        (settled[e] # <<>> /\ settled[e][1] = "success")
        => /\ responses[e] # <<>>
           /\ LastResponse(e).success
           /\ LastResponse(e).result.status = "complete"
           /\ \A k \in 1..(Len(responses[e]) - 1) :
                 responses[e][k].result.status # "complete"
           /\ result[e] = Some(LastResponse(e).result)
           /\ Val(result[e]).result = LastResponse(e).result.result
           /\ \A i \in 1..Len(gets[e]) :
                 gets[e][i] = Val(LastResponse(e).result.result).signedUrl

\* The download of the second artifact's URL was issued.
C6_Witness ==
    /\ settled[1] = <<"success">>
    /\ gets[1] = <<"https://x/z">>
    /\ Val(Val(result[1]).result) = [filename |-> "dump.sql", signedUrl |-> "https://x/z"]

(* C7: strict sequencing.  At most one status request of an export is      *)
(* outstanding at any time, and while request N+1 is outstanding response  *)
(* N has been received and every message line of every response received   *)
(* so far has been emitted.                                                *)
C7_StrictSequencing ==
    \A e \in Running :
        /\ inflight[e] \in {0, 1}
        /\ Len(requests[e]) <= Len(responses[e]) + 1
        /\ inflight[e] = 1
              => /\ Len(requests[e]) = Len(responses[e]) + 1
                 /\ pc[e] = "awaitResponse"
                 /\ Len(console[e]) = Len(AllLines(responses[e]))

\* The third request is outstanding and the first two responses carried
\* lines.
C7_Witness ==
    /\ inflight[1] = 1
    /\ Len(requests[1]) = 3
    /\ Len(console[1]) >= 3

\* Some response of the export ends the job or is a failed envelope.
TerminalSeen(e) == \E k \in 1..Len(responses[e]) : IsTerminal(responses[e][k])

\* The first such response.
FirstTerminal(e) ==
    responses[e][CHOOSE k \in 1..Len(responses[e]) :
                    /\ IsTerminal(responses[e][k])
                    /\ \A j \in 1..(k - 1) : ~IsTerminal(responses[e][j])]

(* C8: exactly one terminal outcome.  The driver of an export settles at   *)
(* most once, as success or as failure and never both; an export that has  *)
(* stopped has returned or has thrown, not both; the outcome is success    *)
(* exactly when the first terminal response is complete; and once the      *)
(* server has answered a poll with status complete, status error or a      *)
(* failed envelope, the driver eventually settles.                         *)
C8_ExactlyOneOutcome ==
    /\ [](\A e \in Running :
            /\ Len(settled[e]) <= 1
            /\ \A i \in 1..Len(settled[e]) : settled[e][i] \in {"success", "failure"}
            /\ settled[e] # <<>>
                  => (settled[e][1] = "success"
                        <=> (TerminalSeen(e) /\ FirstTerminal(e).success
                             /\ FirstTerminal(e).result.status = "complete"))
            /\ pc[e] = "done" => (settled[e] = <<"success">> /\ error[e] = Undefined)
            /\ pc[e] = "failed" <=> IsDefined(error[e]))
    /\ \A e \in Exports : TerminalSeen(e) ~> (settled[e] # <<>>)

\* The driver settled in success on the third poll.
C8_Witness ==
    /\ settled[1] = <<"success">>
    /\ Len(responses[1]) = 3
    /\ FirstTerminal(1).result.status = "complete"

\* "Done!" has been reported.
DoneReported(e) == \E i \in 1..Len(logger[e]) : logger[e][i] = "Done!"

(* C9: artifact retrieval is all-or-nothing.  The GET of the signed URL    *)
(* and the write of the destination file happen only after the driver has  *)
(* returned a complete result, the write only after the GET, each at most  *)
(* once per export; when the driver ends in failure (job error, failed     *)
(* envelope or transport fault) there is no GET, no write and no "Done!".  *)
C9_AllOrNothing ==
    \A e \in Running :
        /\ Len(gets[e]) <= 1
        /\ Len(writes[e]) <= 1
        /\ gets[e] # <<>>
              => /\ settled[e] = <<"success">>
                 /\ IsDefined(result[e])
                 /\ Val(result[e]).status = "complete"
        /\ writes[e] # <<>> => gets[e] # <<>>
        /\ DoneReported(e) => writes[e] # <<>>
        /\ (settled[e] # <<>> /\ settled[e][1] = "failure")
              => /\ gets[e] = <<>>
                 /\ writes[e] = <<>>
                 /\ ~DoneReported(e)
                 /\ pc[e] = "failed"

\* An export whose job completed on the second poll fetched the URL once,
\* wrote its file once and reported it.
C9_Witness ==
    /\ pc[1] = "done"
    /\ Len(gets[1]) = 1
    /\ writes[1] = <<[path |-> "out.sql", data |-> "SQL"]>>
    /\ DoneReported(1)
    /\ Len(responses[1]) = 2

(* C10: request parameters are constant over an export.  Every status      *)
(* request carries the tables, noSchema and noData the caller supplied and *)
(* the chunk limit 790000, to the same endpoint; requests differ in        *)
(* currentBookmark only, and polling leaves the caller's dumpOptions       *)
(* object as it was built.                                                 *)
C10_ConstantParameters ==
    \A e \in Running :
        /\ \A k \in 1..Len(requests[e]) :
              /\ requests[e][k].dumpOptions.tables = Tables(args[e].table)
              /\ requests[e][k].dumpOptions.noSchema = args[e].noSchema
              /\ requests[e][k].dumpOptions.noData = args[e].noData
              /\ requests[e][k].dumpOptions.limit = 790000
              /\ [requests[e][k] EXCEPT !.currentBookmark = Undefined]
                    = [requests[e][1] EXCEPT !.currentBookmark = Undefined]
        /\ requests[e] # <<>>
              => dumpOptions[e] = Some([noSchema |-> args[e].noSchema,
                                        noData |-> args[e].noData,
                                        tables |-> Tables(args[e].table)])

\* Three requests with a table filter and noSchema, with two different
\* bookmarks.
C10_Witness ==
    /\ Len(requests[1]) = 3
    /\ requests[1][3].dumpOptions.tables = <<"users">>
    /\ requests[1][3].dumpOptions.noSchema = Some(TRUE)
    /\ requests[1][2].currentBookmark # requests[1][3].currentBookmark

(* C11: caller-side validation precedes the driver.  When Handler is given *)
(* local, or is not given remote, it fails with a UserError and the export *)
(* never issues a status request, a download or a file write and logs      *)
(* nothing; exportRemotely and pollExport run only when remote is given    *)
(* and local is not.                                                       *)
C11_ValidationFirst ==
    \A e \in Running :
        /\ (pc[e] # "Handler" /\ (Truthy(args[e].local) \/ ~Truthy(args[e].remote)))
              => /\ pc[e] = "failed"
                 /\ IsDefined(error[e])
                 /\ Val(error[e]).name = "UserError"
                 /\ requests[e] = <<>> /\ inflight[e] = 0
                 /\ gets[e] = <<>> /\ writes[e] = <<>>
                 /\ logger[e] = <<>> /\ console[e] = <<>>
                 /\ dumpOptions[e] = Undefined
        /\ (pc[e] \notin {"Handler", "failed"} \/ requests[e] # <<>> \/ logger[e] # <<>>)
              => (Truthy(args[e].remote) /\ ~Truthy(args[e].local))

\* Handler was given neither flag and has failed with the UserError that
\* asks for one.
C11_Witness ==
    /\ args[1].local = Undefined /\ args[1].remote = Undefined
    /\ pc[1] = "failed"
    /\ Val(error[1]) = [name |-> "UserError",
                        message |-> "You must specify either --local or --remote"]

\* The event out is what is shown for the message line line: the line
\* itself after the glyph, or a renumbered "Uploaded part".
IsEventOf(out, line) ==
    IF IsUploadLine(line) THEN IsUploadEvent(out)
    ELSE out = Swirl \o " " \o line

\* s is a prefix of t.
IsPrefix(s, t) == Len(s) <= Len(t) /\ SubSeq(t, 1, Len(s)) = s

(* C12: progress ordering.  The progress events of one export are, in      *)
(* order, one event per message line of each processed response, in        *)
(* response order and in array order within a response: none is dropped,   *)
(* duplicated or moved, and the stream only ever grows at its end.         *)
C12_ProgressOrdering ==
    /\ [](\A e \in Running :
            LET arrived == AllLines(Processed(e))
            IN /\ Len(console[e]) = Len(arrived)
               /\ \A i \in 1..Len(arrived) : IsEventOf(console[e][i], arrived[i]))
    /\ [][\A e \in Running : IsPrefix(console[e], console'[e])]_vars

\* Two responses brought three lines, the first response two different
\* ones, and all three are shown in their order of arrival.
C12_Witness ==
    /\ Len(responses[1]) = 2
    /\ responses[1][1].result.messages = <<"Creating export", "Uploaded part 7">>
    /\ responses[1][2].success
    /\ responses[1][2].result.messages = <<"Creating export">>
    /\ console[1] = <<Swirl \o " Creating export", Swirl \o " Uploaded part 1",
                      Swirl \o " Creating export">>

(* C13: the progress lines of a terminal response come before the end.     *)
(* When the driver has returned or thrown on a response with status        *)
(* complete or error, every message line of that response, like those of   *)
(* the responses before it, has been emitted, and its "Uploaded part"      *)
(* lines have been counted and renumbered.                                 *)
C13_TerminalLinesFirst ==
    \A e \in Running :
        (settled[e] # <<>> /\ responses[e] # <<>> /\ IsJobEnd(LastResponse(e)))
        => LET arrived == AllLines(responses[e])
               last == LastResponse(e).result.messages
               tail == SubSeq(console[e], Len(console[e]) - Len(last) + 1,
                              Len(console[e]))
           IN /\ Len(console[e]) = Len(arrived)
              /\ Len(tail) = Len(last)
              /\ \A i \in 1..Len(last) : IsEventOf(tail[i], last[i])
              /\ num_parts_uploaded[e] = Len(SelectSeq(arrived, IsUploadLine))
              /\ \A i \in 1..Len(last) :
                    IsUploadLine(last[i])
                       => tail[i] = Swirl \o " Uploaded part "
                             \o ToString(Len(SelectSeq(SubSeq(arrived, 1,
                                   Len(arrived) - Len(last) + i), IsUploadLine)))

\* The job failed on the second response, whose two lines were emitted
\* before the throw, the part numbered after the one of the first response.
C13_Witness ==
    /\ settled[1] = <<"failure">>
    /\ Len(responses[1]) = 2
    /\ responses[1][1].result.messages = <<"Uploaded part 7">>
    /\ LastResponse(1).success
    /\ LastResponse(1).result.status = "error"
    /\ LastResponse(1).result.messages = <<"Creating export", "Uploaded part 7">>
    /\ console[1] = <<Swirl \o " Uploaded part 1", Swirl \o " Creating export",
                      Swirl \o " Uploaded part 2">>

(* C14: a message line that does not start with "Uploaded part" is emitted *)
(* as it is, after the glyph, and leaves the counter of uploaded parts     *)
(* unchanged; walking the lines of a response raises the counter by one    *)
(* for each line that does start with it and by nothing else, and no other *)
(* step changes the counter.                                               *)
C14_OtherLinesVerbatim ==
    [][\A e \in Running :
          IF pc[e] = "messages" /\ pc'[e] # "messages"
          THEN LET lines == Val(response[e]).result.messages
                   added == SubSeq(console'[e], Len(console[e]) + 1,
                                   Len(console'[e]))
               IN /\ Len(added) = Len(lines)
                  /\ \A i \in 1..Len(lines) :
                        ~IsUploadLine(lines[i]) => added[i] = Swirl \o " " \o lines[i]
                  /\ num_parts_uploaded'[e] - num_parts_uploaded[e]
                        = Len(SelectSeq(lines, IsUploadLine))
          ELSE num_parts_uploaded'[e] = num_parts_uploaded[e]]_vars

\* After one part, a response with an informational line only was walked:
\* the line is shown as it came and the counter is still one.
C14_Witness ==
    /\ Len(responses[1]) = 2
    /\ pc[1] = "branch"
    /\ responses[1][1].result.messages = <<"Uploaded part 7">>
    /\ LastResponse(1).success
    /\ LastResponse(1).result.messages = <<"Creating export">>
    /\ console[1] = <<Swirl \o " Uploaded part 1", Swirl \o " Creating export">>
    /\ num_parts_uploaded[1] = 1

\* Every response the export has received is a successful envelope with
\* status active.
AllActive(e) ==
    \A k \in 1..Len(responses[e]) :
        responses[e][k].success /\ responses[e][k].result.status = "active"

(* C15: no self-imposed bound.  The driver never stops polling on its own: *)
(* while every response so far is active and no request has faulted, the   *)
(* driver is inside its poll loop and has not settled; and for every n     *)
(* below the model's cap, after n responses that are all active the driver *)
(* issues request n + 1.                                                   *)
C15_NoSelfImposedBound ==
    /\ [](\A e \in Running :
            (requests[e] # <<>> /\ AllActive(e) /\ ~Faulted(e))
            => /\ settled[e] = <<>>
               /\ pc[e] \in {"pollExport", "awaitResponse", "checkSuccess",
                             "messages", "branch"}
               /\ (pc[e] = "pollExport" /\ Len(requests[e]) < MaxPolls)
                     => ENABLED PollRequest(e))
    /\ \A e \in Exports : \A n \in 1..(MaxPolls - 1) :
          (Len(responses[e]) = n /\ AllActive(e)) ~> (Len(requests[e]) >= n + 1)

\* Two active responses were followed by a third request.
C15_Witness ==
    /\ Len(responses[1]) = 2
    /\ AllActive(1)
    /\ Len(requests[1]) = 3

(* C16: independent exports do not interfere.  With two exports running in *)
(* one process and their polls interleaved in any order, each export's     *)
(* requests carry no bookmark first and then the bookmark of that export's *)
(* own previous response, never the other job's, and each export's parts   *)
(* are numbered 1, 2, 3, ... by that export's own lines, as when it runs   *)
(* alone.                                                                  *)
C16_ExportsIndependent ==
    \A e \in Exports :
        /\ \A k \in 1..Len(requests[e]) :
              /\ requests[e][k].currentBookmark
                    = IF k = 1 THEN Undefined
                      ELSE Some(responses[e][k - 1].result.at_bookmark)
              /\ \A o \in Exports \ {e} :
                    requests[e][k].currentBookmark # Some(BookmarkOf(o))
              /\ requests[e][k].dumpOptions.tables = Tables(args[e].table)
        /\ LET own == SelectSeq(AllLines(Processed(e)), IsUploadLine)
               shown == SelectSeq(console[e], IsUploadEvent)
           IN /\ Len(shown) = Len(own)
              /\ \A i \in 1..Len(shown) :
                    shown[i] = Swirl \o " Uploaded part " \o ToString(i)
              /\ num_parts_uploaded[e] = Len(own)

\* Both exports have a resumed request outstanding at once, the first
\* after one part and the second after two.
C16_Witness ==
    /\ pc[1] = "awaitResponse" /\ pc[2] = "awaitResponse"
    /\ requests[1][Len(requests[1])].currentBookmark = Some("b1")
    /\ requests[2][Len(requests[2])].currentBookmark = Some("b2")
    /\ console[1] = <<Swirl \o " Uploaded part 1">>
    /\ console[2] = <<Swirl \o " Uploaded part 1", Swirl \o " Uploaded part 2">>

\* The text p occurs in the text s.
Occurs(s, p) == IndexFrom(s, p, 1) # 0

\* A logged line tells the operator to retry the URL url by hand.
RetryMessageLogged(e, url) ==
    \E i \in 1..Len(logger[e]) :
        /\ Occurs(logger[e][i], "you can retry downloading the following URL manually")
        /\ Occurs(logger[e][i], url)

(* C17: the signed URL is shown before the download is tried.  Whenever    *)
(* the GET of the signed URL has been issued, the manual-retry message     *)
(* with that same URL has already been logged, so the operator has it when *)
(* the fetch or the write of the file fails.                               *)
C17_UrlBeforeDownload ==
    /\ [](\A e \in Running :
            \A i \in 1..Len(gets[e]) : RetryMessageLogged(e, gets[e][i]))
    /\ [][\A e \in Running :
            gets'[e] # gets[e]
               => RetryMessageLogged(e, gets'[e][Len(gets'[e])])]_vars

\* The download of the second URL failed and the message with that URL is
\* in the log.
C17_Witness ==
    /\ gets[1] = <<"https://x/z">>
    /\ pc[1] = "failed"
    /\ Val(error[1]).message = "fetch failed"
    /\ RetryMessageLogged(1, "https://x/z")
    /\ ~RetryMessageLogged(1, "https://x/y")

ResetMessage == "Error: D1 reset before export completed!"

(* C18: pollExport returns normally only with a response whose status is   *)
(* complete, so the check of exportRemotely that throws "D1 reset before   *)
(* export completed!" never fires, whatever the server answers, statuses   *)
(* outside the declared type included.                                     *)
C18_ResetCheckUnreachable ==
    \A e \in Running :
        /\ IsDefined(result[e]) => Val(result[e]).status = "complete"
        /\ (settled[e] # <<>> /\ settled[e][1] = "success")
              => (LastResponse(e).success /\ LastResponse(e).result.status = "complete")
        /\ IsDefined(error[e]) => Val(error[e]).message # ResetMessage
        /\ (pc[e] = "failed" /\ settled[e] = <<"success">>) => gets[e] # <<>>

\* pollExport returned after a response of undeclared status and the check
\* of line 128 let the export through.
C18_Witness ==
    /\ pc[1] = "log"
    /\ Len(responses[1]) = 2
    /\ responses[1][1].result.status = "queued"
    /\ Val(result[1]).status = "complete"

(* C19: a response with a successful envelope whose status is neither      *)
(* complete nor error, active or not declared at all, is treated as        *)
(* active: the driver neither returns nor throws on it but polls again,    *)
(* with that response's at_bookmark and the count of parts so far.         *)
C19_OtherStatusIsActive ==
    /\ [][\A e \in Running :
            (/\ pc[e] = "branch" /\ pc'[e] # "branch"
             /\ Val(response[e]).result.status \notin {"complete", "error"})
            => /\ pc'[e] = "pollExport"
               /\ currentBookmark'[e] = Some(Val(response[e]).result.at_bookmark)
               /\ num_parts_uploaded'[e] = num_parts_uploaded[e]
               /\ num_parts_uploaded'[e]
                     = Len(SelectSeq(AllLines(responses[e]), IsUploadLine))
               /\ settled'[e] = <<>> /\ error'[e] = Undefined
               /\ result'[e] = Undefined]_vars
    /\ [][\A e \in Running :
            (requests'[e] # requests[e] /\ requests[e] # <<>>)
            => /\ LastResponse(e).success
               /\ LastResponse(e).result.status \notin {"complete", "error"}
               /\ requests'[e][Len(requests'[e])].currentBookmark
                     = Some(LastResponse(e).result.at_bookmark)]_vars

\* A response of undeclared status that brought a part was followed by a
\* request with its bookmark, and the part after it was numbered two.
C19_Witness ==
    /\ Len(requests[1]) = 2
    /\ Len(responses[1]) = 2
    /\ responses[1][1].result.status = "queued"
    /\ responses[1][1].result.at_bookmark = "b1"
    /\ responses[1][1].result.messages = <<"Uploaded part 7">>
    /\ requests[1][2].currentBookmark = Some("b1")
    /\ console[1] = <<Swirl \o " Uploaded part 1", Swirl \o " Uploaded part 2">>

\* The date a dated name carries: the first match of the expression.
DateOf(name) ==
    LET at == CHOOSE i \in 1..(Len(name) - 9) :
                  /\ MatchesDateAt(name, i)
                  /\ \A j \in 1..(i - 1) : ~MatchesDateAt(name, j)
    IN SubSeq(name, at, at + 9)

Dated(dir) == {filename \in dir.names : HasDate(filename)}

TypesReturned == typesPc = "done" /\ IsDefined(entrypointVersion)

\* C20: getLatestTypesEntrypoint returns the entry of the workers-types
\* directory that carries the latest date; it returns null when the directory
\* cannot be read or no entry carries a date, and never an entry without one.
C20_LatestDatedEntrypoint ==
    TypesReturned =>
        LET returned == Val(entrypointVersion)
        IN IF ~typesDir.readable \/ Dated(typesDir) = {}
           THEN returned = Null
           ELSE /\ returned # Null
                /\ Val(returned) \in Dated(typesDir)
                /\ \A other \in Dated(typesDir) :
                       ~StrLess(DateOf(Val(returned)), DateOf(other))

\* The parts of C20 that do not compare dates.
C20_NullOrDated ==
    TypesReturned =>
        LET returned == Val(entrypointVersion)
        IN IF ~typesDir.readable \/ Dated(typesDir) = {}
           THEN returned = Null
           ELSE returned # Null /\ Val(returned) \in Dated(typesDir)
====
